---------------------------- MODULE Spec2Model ----------------------------
(***************************************************************************)
(* A model of MW_Scripts.py: the seed-SQL generator.                       *)
(*                                                                         *)
(* Texts (Python str) are sequences of tokens; a token is one character    *)
(* (" ", "\n", ".", "_", "{", "}") or an opaque word.  Optional values are *)
(* sequences of length at most one: None is <<>>, a value v is <<v>>.      *)
(***************************************************************************)
EXTENDS Integers, Sequences, FiniteSets, Bags, TLC

VARIABLES
    entry,           \* the entry point the process was started through
    environ,         \* os.environ.get("OPENAI_API_KEY"): None or Some(text)
    script,          \* the module-level code and the __main__ block
    config_data,     \* main_gui: the configuration variables of the form
    jobs_data,       \* main_gui: the job rows
    pools_data,      \* main_gui: the pool rows
    progress_label,  \* main_gui: what the progress label shows
    pools_ui,        \* main_gui: add_pool_btn state, warning label, container
    messagebox,      \* the tkinter message box the step just taken showed
    threads,         \* the live do_generate threads (a bag of run records)
    fg,              \* the call running on the main thread (main, or a bare call)
    console,         \* the panel the step just taken printed
    files            \* the file system: path -> data

vars == <<entry, environ, script, config_data, jobs_data, pools_data,
          progress_label, pools_ui, messagebox, threads, fg, console, files>>

formVars == <<config_data, jobs_data, pools_data, progress_label, pools_ui,
              threads>>

\* what a label, a message box shows: a kind, an index (0 for none), a text
(* A message box is modal and a panel scrolls by: both variables hold what  *)
(* the latest step put out, NoMsg and "none" when it put out nothing.       *)
Msg(kind, n, text) == [kind |-> kind, n |-> n, text |-> text]
NoMsg == Msg("none", 0, <<>>)

-----------------------------------------------------------------------------
(* Bounds of the model *)

MaxContentLen == 4
MaxTables == 2

-----------------------------------------------------------------------------
(* Python values *)

None == <<>>
Some(v) == <<v>>

\* Python truthiness of an Optional[str]: neither None nor ""
Truthy(opt) == opt # None /\ opt[1] # <<>>

WS == {" ", "\n"}

RECURSIVE LStrip(_)
LStrip(s) == IF s = <<>> THEN s
             ELSE IF Head(s) \in WS THEN LStrip(Tail(s)) ELSE s

RECURSIVE RStrip(_)
RStrip(s) == IF s = <<>> THEN s
             ELSE IF s[Len(s)] \in WS THEN RStrip(SubSeq(s, 1, Len(s) - 1)) ELSE s

\* str.strip()
Strip(s) == RStrip(LStrip(s))

\* str.find(tok) + 1: the first position of tok, 0 when absent
Find(s, tok) == IF \E i \in 1..Len(s) : s[i] = tok
                THEN CHOOSE i \in 1..Len(s) : s[i] = tok /\ \A j \in 1..(i - 1) : s[j] # tok
                ELSE 0

\* str.rfind(tok) + 1: the last position of tok, 0 when absent
RFind(s, tok) == IF \E i \in 1..Len(s) : s[i] = tok
                 THEN CHOOSE i \in 1..Len(s) : s[i] = tok /\ \A j \in (i + 1)..Len(s) : s[j] # tok
                 ELSE 0

\* str.split(sep): always at least one part
RECURSIVE Split(_, _)
Split(s, sep) == LET i == Find(s, sep)
                 IN  IF i = 0 THEN <<s>>
                     ELSE <<SubSeq(s, 1, i - 1)>> \o Split(SubSeq(s, i + 1, Len(s)), sep)

\* sep.join(parts)
RECURSIVE Join(_, _)
Join(parts, sep) == IF parts = <<>> THEN <<>>
                    ELSE IF Len(parts) = 1 THEN parts[1]
                    ELSE parts[1] \o <<sep>> \o Join(Tail(parts), sep)

\* str.replace(a, b) for one-token a and b
Replace(s, a, b) == [i \in 1..Len(s) |-> IF s[i] = a THEN b ELSE s[i]]

\* str.rsplit(sep, 1)[0]
RSplit1Head(s, sep) == LET i == RFind(s, sep)
                       IN  IF i = 0 THEN s ELSE SubSeq(s, 1, i - 1)

\* every sequence over S of length at most n
SeqUpTo(S, n) == UNION {[1..k -> S] : k \in 0..n}

-----------------------------------------------------------------------------
(* SeedResponse, and the replies of the model provider *)

PyNone == [kind |-> "None"]

SqlTableInserts(table, inserts) == [table |-> table, inserts |-> inserts]

SeedResponse(dialect, notes, tables, full_sql) ==
    [kind |-> "SeedResponse", dialect |-> dialect, notes |-> notes,
     tables |-> tables, full_sql |-> full_sql]

\* the seeds a reply may carry; "s1" and "s2" are the JSON members that encode them
SeedOf(tok) ==
    IF tok = "s1"
    THEN SeedResponse("mysql", <<>>,
                      <<SqlTableInserts(<<"t">>, <<(<<"I1">>)>>)>>, <<"I1", "\n">>)
    ELSE SeedResponse("mysql", <<(<<"n">>)>>,
                      <<SqlTableInserts(<<"a", ".", "b">>, <<(<<"I1">>)>>),
                        SqlTableInserts(<<"a", "_", "b">>, <<(<<"I2">>)>>)>>,
                      <<"I1", "\n", "I2">>)

SeedTokens == {"s1", "s2"}

\* SeedResponse.model_validate_json: JSON ignores whitespace between tokens; the
\* text must be one object whose members satisfy the schema
JsonTokens(s) == SelectSeq(s, LAMBDA tok : tok \notin WS)

ValidatesJson(s) == /\ Len(JsonTokens(s)) = 3
                    /\ JsonTokens(s)[1] = "{"
                    /\ JsonTokens(s)[2] \in SeedTokens
                    /\ JsonTokens(s)[3] = "}"

ParsedJson(s) == SeedOf(JsonTokens(s)[2])

\* the markdown code fence, with and without its language tag
Fences == {"fence_json", "fence"}

\* lines 380-385: strip, then drop the first and the last line of a fenced reply
StripFence(s) == LET t == Strip(s)
                     lines == Split(t, "\n")
                 IN  IF t # <<>> /\ Head(t) \in Fences
                     THEN Join(SubSeq(lines, 2, Len(lines) - 1), "\n")
                     ELSE t

\* lines 387-390: keep the span from the first "{" to the last "}"
CutToBraces(s) == IF Find(s, "{") # 0 /\ Find(s, "}") # 0
                  THEN SubSeq(s, Find(s, "{"), RFind(s, "}"))
                  ELSE s

CleanJson(s) == CutToBraces(StripFence(s))

-----------------------------------------------------------------------------
(* build_prompt *)

PoolInput(technical_skill, level, question_quantity, certifiers) ==
    [technical_skill |-> technical_skill, level |-> level,
     question_quantity |-> question_quantity, certifiers |-> certifiers]

JobInput(name, skills) == [name |-> name, skills |-> skills]

\* the parts of the prompt text that depend on the arguments
build_prompt(dialect, use_uuid, pools, jobs, include_roles) ==
    [dialect |-> dialect,
     id_type |-> IF dialect = "sqlserver"
                 THEN (IF use_uuid THEN "UNIQUEIDENTIFIER" ELSE "IDENTITY(1,1)")
                 ELSE IF dialect = "postgres"
                 THEN (IF use_uuid THEN "UUID" ELSE "SERIAL")
                 ELSE (IF use_uuid THEN "CHAR(36)" ELSE "AUTO_INCREMENT"),
     pools_json |-> pools,
     jobs_json |-> jobs,
     include_roles |-> IF include_roles THEN "true" ELSE "false"]

-----------------------------------------------------------------------------
(* A run: the locals of one generate_seed_sql / write_outputs call and of   *)
(* the function (main, do_generate) that makes it                           *)

Run(pc, api_key, model, prompt) ==
    [pc |-> pc,              \* where the run stands
     api_key |-> api_key,    \* the api_key argument (Optional[str])
     model |-> model,
     prompt |-> prompt,      \* None until build_prompt has returned
     client |-> None,        \* the key the OpenAI client holds
     nA |-> 0,               \* requests sent with beta.chat.completions.parse
     nB |-> 0,               \* requests sent with chat.completions.create
     aexc |-> "",            \* the exception method A raised ("" for none)
     content |-> None,       \* resp.choices[0].message.content of method B
     result |-> None,        \* the value generate_seed_sql returned
     exc |-> "",             \* the exception that left the call ("" for none)
     inputs |-> None,        \* the collected form fields
     out_prefix |-> <<>>,
     written |-> <<>>]       \* the paths write_outputs opened, in order

NoRun == Run("none", None, <<>>, None)

-----------------------------------------------------------------------------
(* What the provider may answer *)

ContentAlphabet == {"fence", "\n", "{", "}", "s1", "x"}

\* replies longer than the enumerated ones: fenced, padded, schema-invalid
LongContents == {<<"fence_json", "\n", "{", "s2", "}", "\n", "fence">>,
                 <<"fence", "\n", "{", " ", "s1", "}", "\n", "fence">>,
                 <<"fence_json", "{", "s1", "}", "fence">>,
                 <<" ", "x", "{", "s1", "}", "x", "\n">>,
                 <<"{", "bad", "}">>,
                 <<"{", "s1", "}", "x", "}">>,
                 <<" ", "\n">>}

FewContents == {<<>>, <<"{", "s1", "}">>, <<"x">>}

Contents(e) == IF e = "generate_seed_sql"
               THEN SeqUpTo(ContentAlphabet, MaxContentLen) \cup LongContents
               ELSE FewContents

ParsedSeeds(e) == IF e = "generate_seed_sql"
                  THEN {SeedOf(t) : t \in SeedTokens} \cup {PyNone}
                  ELSE {SeedOf("s1"), PyNone}

\* the exceptions a request raises: the form's threads see one kind of each
ARaises(e) == IF e = "main_gui" THEN {"APIError"} ELSE {"AttributeError", "APIError"}
BRaises(e) == IF e = "main_gui" THEN {"APIError"} ELSE {"APIError", "NotFoundError"}

\* method A: a parsed message (None when the model refused), or an exception
AOutcomes(e) == {[kind |-> "parsed", seed |-> s] : s \in ParsedSeeds(e)}
                \cup {[kind |-> "raise", exc |-> x] : x \in ARaises(e)}

\* method B: a message content (None, or a text), or an exception
BOutcomes(e) == {[kind |-> "content", content |-> c] :
                    c \in {None} \cup {Some(t) : t \in Contents(e)}}
                \cup {[kind |-> "raise", exc |-> x] : x \in BRaises(e)}

-----------------------------------------------------------------------------
(* generate_seed_sql, as steps of a run *)

\* lines 331-334: the key the client is built with; OpenAI() raises when the
\* environment holds none
gs_client_key(api_key, env) ==
    IF Truthy(api_key) /\ Strip(api_key[1]) # <<>> THEN Some(Strip(api_key[1])) ELSE env

\* lines 331-350: build the client and send the method-A request
gs_start(r, env) ==
    IF gs_client_key(r.api_key, env) = None
    THEN [r EXCEPT !.pc = "gs_raised", !.exc = "OpenAIError"]
    ELSE [r EXCEPT !.client = gs_client_key(r.api_key, env),
                   !.nA = @ + 1, !.pc = "gs_waitA"]

\* a generate_seed_sql without the fallback: an exception of method A leaves it
gs_after_A_no_fallback(r, out) ==
    IF out.kind = "parsed"
    THEN [r EXCEPT !.pc = "gs_returned", !.result = Some(out.seed)]
    ELSE [r EXCEPT !.aexc = out.exc, !.exc = out.exc, !.pc = "gs_raised"]

\* lines 351-376: method A answered; on any exception send the method-B request
gs_after_A(r, out) ==
    IF out.kind = "parsed"
    THEN [r EXCEPT !.pc = "gs_returned", !.result = Some(out.seed)]
    ELSE [r EXCEPT !.aexc = out.exc, !.nB = @ + 1, !.pc = "gs_waitB"]

\* a generate_seed_sql that sends the method-B request again when it raised
gs_after_B_retry(r, out) ==
    IF out.kind = "raise"
    THEN (IF r.nB < 2 THEN [r EXCEPT !.nB = @ + 1]
          ELSE [r EXCEPT !.pc = "gs_raised", !.exc = out.exc])
    ELSE IF ~Truthy(out.content)
    THEN [r EXCEPT !.pc = "gs_raised", !.exc = "ValueError", !.content = out.content]
    ELSE IF ValidatesJson(CleanJson(out.content[1]))
    THEN [r EXCEPT !.pc = "gs_returned", !.content = out.content,
                   !.result = Some(ParsedJson(CleanJson(out.content[1])))]
    ELSE [r EXCEPT !.pc = "gs_raised", !.exc = "ValidationError",
                   !.content = out.content]

\* a generate_seed_sql that hands back whatever method B sent, validated or not
gs_after_B_unchecked(r, out) ==
    IF out.kind = "raise"
    THEN [r EXCEPT !.pc = "gs_raised", !.exc = out.exc]
    ELSE IF Truthy(out.content) /\ ValidatesJson(CleanJson(out.content[1]))
    THEN [r EXCEPT !.pc = "gs_returned", !.content = out.content,
                   !.result = Some(ParsedJson(CleanJson(out.content[1])))]
    ELSE [r EXCEPT !.pc = "gs_returned", !.content = out.content,
                   !.result = Some(PyNone)]

\* lines 377-412: method B answered
gs_after_B(r, out) ==
    IF out.kind = "raise"
    THEN [r EXCEPT !.pc = "gs_raised", !.exc = out.exc]
    ELSE IF ~Truthy(out.content)
    THEN [r EXCEPT !.pc = "gs_raised", !.exc = "ValueError", !.content = out.content]
    ELSE IF ValidatesJson(CleanJson(out.content[1]))
    THEN [r EXCEPT !.pc = "gs_returned", !.content = out.content,
                   !.result = Some(ParsedJson(CleanJson(out.content[1])))]
    ELSE [r EXCEPT !.pc = "gs_raised", !.exc = "ValidationError",
                   !.content = out.content]

\* lines 397-411: the panel printed before re-raising
gs_error_panel(r, con) ==
    IF r.pc = "gs_raised" /\ r.exc = "NotFoundError" THEN "model_unavailable" ELSE con

-----------------------------------------------------------------------------
(* write_outputs *)

\* a per-table path that keeps the table name as it is
TablePath_raw(out_prefix, t) == out_prefix \o <<"__">> \o t.table \o <<".sql">>

JsonPath(out_prefix) == out_prefix \o <<".json">>
SqlPath(out_prefix) == out_prefix \o <<".sql">>
TablePath(out_prefix, t) == out_prefix \o <<"__">> \o Replace(t.table, ".", "_") \o <<".sql">>

JsonData(seed) == [kind |-> "json", dump |-> seed]
SqlData(seed) == [kind |-> "text",
                  text |-> <<"-- SQL Consolidado", "\n">> \o Strip(seed.full_sql) \o <<"\n">>]
TableData(t) == [kind |-> "text",
                 text |-> <<"-- Inserts para ">> \o t.table \o <<"\n">>
                          \o Strip(Join(t.inserts, "\n")) \o <<"\n">>]
EmptyFile == [kind |-> "text", text |-> <<>>]

\* open(path, "w") ... f.write(data)
WriteFile(fs, path, data) ==
    [p \in (DOMAIN fs) \cup {path} |-> IF p = path THEN data ELSE fs[p]]

\* lines 417-419; a seed of None fails after open() has created the file
wo_json(r, fs) ==
    IF r.result[1].kind = "None"
    THEN [run |-> [r EXCEPT !.pc = "wo_raised", !.exc = "AttributeError",
                            !.written = Append(@, JsonPath(r.out_prefix))],
          fs |-> WriteFile(fs, JsonPath(r.out_prefix), EmptyFile)]
    ELSE [run |-> [r EXCEPT !.pc = "wo_sql",
                            !.written = Append(@, JsonPath(r.out_prefix))],
          fs |-> WriteFile(fs, JsonPath(r.out_prefix), JsonData(r.result[1]))]

\* lines 422-425
wo_sql(r, fs) ==
    [run |-> [r EXCEPT !.pc = "wo_tables", !.written = Append(@, SqlPath(r.out_prefix))],
     fs |-> WriteFile(fs, SqlPath(r.out_prefix), SqlData(r.result[1]))]

\* the index of the next table of the loop of lines 428-433
wo_next(r) == Len(r.written) - 1

\* lines 428-433: one iteration
wo_table(r, fs) ==
    LET t == r.result[1].tables[wo_next(r)]
    IN  [run |-> [r EXCEPT !.written = Append(@, TablePath(r.out_prefix, t))],
         fs |-> WriteFile(fs, TablePath(r.out_prefix, t), TableData(t))]

\* the whole of write_outputs, from any of its steps
RECURSIVE write_outputs(_, _)
write_outputs(r, fs) ==
    IF r.pc = "wo_json" THEN write_outputs(wo_json(r, fs).run, wo_json(r, fs).fs)
    ELSE IF r.pc = "wo_sql" THEN write_outputs(wo_sql(r, fs).run, wo_sql(r, fs).fs)
    ELSE IF r.pc = "wo_tables" /\ wo_next(r) <= Len(r.result[1].tables)
    THEN write_outputs(wo_table(r, fs).run, wo_table(r, fs).fs)
    ELSE IF r.pc = "wo_tables"
    THEN [run |-> [r EXCEPT !.pc = "wo_returned"], fs |-> fs]
    ELSE [run |-> r, fs |-> fs]

-----------------------------------------------------------------------------
(* The steps of the call on the main thread *)

fg_gs_start ==
    /\ fg.pc = "gs_entry"
    /\ fg' = gs_start(fg, environ)
    /\ messagebox' = NoMsg
    /\ console' = "none"
    /\ UNCHANGED <<entry, environ, script, formVars, files>>

fg_gs_reply_A ==
    /\ fg.pc = "gs_waitA"
    /\ \E out \in AOutcomes(entry) : fg' = gs_after_A(fg, out)
    /\ messagebox' = NoMsg
    /\ console' = "none"
    /\ UNCHANGED <<entry, environ, script, formVars, files>>

fg_gs_reply_B ==
    /\ fg.pc = "gs_waitB"
    /\ \E out \in BOutcomes(entry) :
          /\ fg' = gs_after_B(fg, out)
          /\ console' = gs_error_panel(gs_after_B(fg, out), "none")
    /\ messagebox' = NoMsg
    /\ UNCHANGED <<entry, environ, script, formVars, files>>

fg_wo_json ==
    /\ fg.pc = "wo_json"
    /\ fg' = wo_json(fg, files).run
    /\ files' = wo_json(fg, files).fs
    /\ messagebox' = NoMsg
    /\ console' = "none"
    /\ UNCHANGED <<entry, environ, script, formVars>>

fg_wo_sql ==
    /\ fg.pc = "wo_sql"
    /\ fg' = wo_sql(fg, files).run
    /\ files' = wo_sql(fg, files).fs
    /\ messagebox' = NoMsg
    /\ console' = "none"
    /\ UNCHANGED <<entry, environ, script, formVars>>

fg_wo_table ==
    /\ fg.pc = "wo_tables"
    /\ wo_next(fg) <= Len(fg.result[1].tables)
    /\ fg' = wo_table(fg, files).run
    /\ files' = wo_table(fg, files).fs
    /\ messagebox' = NoMsg
    /\ console' = "none"
    /\ UNCHANGED <<entry, environ, script, formVars>>

\* lines 436-453: the summary table, then the return
fg_wo_summary ==
    /\ fg.pc = "wo_tables"
    /\ wo_next(fg) > Len(fg.result[1].tables)
    /\ fg' = [fg EXCEPT !.pc = "wo_returned"]
    /\ console' = "files_table"
    /\ messagebox' = NoMsg
    /\ UNCHANGED <<entry, environ, script, formVars, files>>

\* open() or write() fails: the exception leaves write_outputs
fg_wo_oserror ==
    /\ fg.pc \in {"wo_json", "wo_sql"}
       \/ (fg.pc = "wo_tables" /\ wo_next(fg) <= Len(fg.result[1].tables))
    /\ fg' = [fg EXCEPT !.pc = "wo_raised", !.exc = "OSError"]
    /\ messagebox' = NoMsg
    /\ console' = "none"
    /\ UNCHANGED <<entry, environ, script, formVars, files>>

-----------------------------------------------------------------------------
(* The states of the parts of the program a specification leaves alone *)

NoScript == [pc |-> "none"]
NoConfig == [api_key |-> <<>>, dialect |-> "mysql", use_uuid |-> TRUE,
             include_roles |-> FALSE, model |-> <<"gpt-", "4o-mini">>]
NoPoolsUi == [add_pool_btn |-> "disabled", pools_warning |-> TRUE,
              pools_container |-> FALSE]

NoGui == /\ config_data = NoConfig
         /\ jobs_data = <<>>
         /\ pools_data = <<>>
         /\ progress_label = NoMsg
         /\ pools_ui = NoPoolsUi
         /\ messagebox = NoMsg
         /\ threads = EmptyBag

EnvValues == {None, Some(<<>>), Some(<<"k">>)}

-----------------------------------------------------------------------------
(* SpecGen: one call generate_seed_sql(prompt, model, api_key) *)

GenApiKeys == {None, Some(<<>>), Some(<<" ">>), Some(<<"k">>), Some(<<" ", "k", "\n">>)}

InitGen ==
    /\ entry = "generate_seed_sql"
    /\ environ \in EnvValues
    /\ script = NoScript
    /\ NoGui
    /\ fg \in {Run("gs_entry", k, <<"gpt-", "4o-mini">>,
                   Some(build_prompt("mysql", TRUE, <<>>, <<>>, FALSE))) : k \in GenApiKeys}
    /\ console = "none"
    /\ files = <<>>

NextGen == fg_gs_start \/ fg_gs_reply_A \/ fg_gs_reply_B

SpecGen == InitGen /\ [][NextGen]_vars

-----------------------------------------------------------------------------
(* SpecWrite: one call write_outputs(seed, out_prefix) *)

TableNames == {<<"t">>, <<"a", ".", "b">>, <<"a", "_", "b">>}
InsertLists == {<<(<<"I1">>)>>, <<(<<" ", "I2">>), (<<"I3", "\n">>)>>}
TableEntries == {SqlTableInserts(n, i) : n \in TableNames, i \in InsertLists}
WriteSeeds == {SeedResponse("mysql", <<>>, ts, sql) :
                  ts \in SeqUpTo(TableEntries, MaxTables),
                  sql \in {<<"I1">>, <<"\n", "I1", "\n", "I2", " ">>}}
OutPrefixes == {<<"seed_output">>, <<"d", ".", "x">>}

InitWrite ==
    /\ entry = "write_outputs"
    /\ environ = None
    /\ script = NoScript
    /\ NoGui
    /\ fg \in {[Run("wo_json", None, <<>>, None) EXCEPT !.result = Some(s), !.out_prefix = p] :
                  s \in WriteSeeds, p \in OutPrefixes}
    /\ console = "none"
    /\ files = <<>>

NextWrite == fg_wo_json \/ fg_wo_sql \/ fg_wo_table \/ fg_wo_summary \/ fg_wo_oserror

SpecWrite == InitWrite /\ [][NextWrite]_vars

-----------------------------------------------------------------------------
(* SpecScript: python MW_Scripts.py, up to the call of main_gui *)

\* whether python-dotenv is installed, and whether its load_dotenv() raises
DotenvStates == {"missing", "loads", "raises"}

\* the .env file: None when there is none, else what it assigns to
\* OPENAI_API_KEY (None when it has no such line)
EnvFiles == {None, Some(None), Some(Some(<<>>)), Some(Some(<<"f", " ">>))}

\* lines 153-171: the environment after the optional .env file is loaded.
\* load_dotenv() keeps a variable that is already set; the manual parse of
\* lines 159-167 assigns every KEY=value line, stripped
load_env(dotenv, envfile, env) ==
    IF dotenv = "missing" \/ envfile = None \/ envfile[1] = None THEN env
    ELSE IF dotenv = "loads"
    THEN (IF env = None THEN Some(Strip(envfile[1][1])) ELSE env)
    ELSE Some(Strip(envfile[1][1]))

script_import ==
    /\ script.pc = "import"
    /\ environ' = load_env(script.dotenv, script.envfile, environ)
    /\ script' = [script EXCEPT !.pc = "main"]
    /\ messagebox' = NoMsg
    /\ console' = "none"
    /\ UNCHANGED <<entry, formVars, fg, files>>

\* a __main__ block that opens the form whatever the environment holds
script_check_any(s, env) == [s EXCEPT !.pc = "main_gui"]

\* lines 1199-1200 and 1247
script_check(s, env) ==
    IF ~Truthy(env) THEN [s EXCEPT !.pc = "report"] ELSE [s EXCEPT !.pc = "main_gui"]

script_main ==
    /\ script.pc = "main"
    /\ script' = script_check(script, environ)
    /\ messagebox' = NoMsg
    /\ console' = "none"
    /\ UNCHANGED <<entry, environ, formVars, fg, files>>

\* line 1244
script_exit(s) == [s EXCEPT !.pc = "exited", !.exit = Some(1)]

\* lines 1202-1222: the error in a message box
script_report_box ==
    /\ script.pc = "report"
    /\ script.tk
    /\ messagebox' = Msg("showerror", 0, <<"missing_api_key">>)
    /\ script' = script_exit(script)
    /\ console' = "none"
    /\ UNCHANGED <<entry, environ, config_data, jobs_data, pools_data, progress_label,
                   pools_ui, threads, fg, files>>

\* lines 1223-1243: no display, the error on the console
script_report_console ==
    /\ script.pc = "report"
    /\ ~script.tk
    /\ console' = "missing_api_key"
    /\ script' = script_exit(script)
    /\ messagebox' = NoMsg
    /\ UNCHANGED <<entry, environ, formVars, fg, files>>

\* line 1247: main_gui() is entered
script_main_gui ==
    /\ script.pc = "main_gui"
    /\ script' = [script EXCEPT !.pc = "in_main_gui"]
    /\ messagebox' = NoMsg
    /\ console' = "none"
    /\ UNCHANGED <<entry, environ, formVars, fg, files>>

InitScript ==
    /\ entry = "script"
    /\ environ \in EnvValues
    /\ script \in {[pc |-> "import", dotenv |-> d, envfile |-> f, tk |-> t,
                    launch_env |-> environ, exit |-> None] :
                      d \in DotenvStates, f \in EnvFiles, t \in BOOLEAN}
    /\ NoGui
    /\ fg = NoRun
    /\ console = "none"
    /\ files = <<>>

NextScript == \/ script_import
              \/ script_main
              \/ script_report_box
              \/ script_report_console
              \/ script_main_gui

SpecScript == InitScript /\ [][NextScript]_vars

-----------------------------------------------------------------------------
(* main_gui: the form *)

MaxJobs == 1
MaxPools == 1
MaxThreads == 2

\* what the user may type into the entries, and pick in the save dialog
ApiKeyTexts == {<<>>, <<" ">>, <<"k">>}
NameTexts == {<<>>, <<"a">>}
QuantityTexts == {<<"5">>, <<"0">>, <<"x">>}
DialogPaths == {<<>>, <<"out", ".", "sql">>}

DefaultCertifiers == <<(<<"certifier1@example.com">>)>>

\* lines 655-659 and 773-779: a new row
job_info == [name |-> <<>>, skills |-> <<>>]
pool_info == [skill |-> <<>>, level |-> "BAJO", quantity |-> <<"5">>, certifiers |-> <<>>]

RemoveAt(seq, i) == SubSeq(seq, 1, i - 1) \o SubSeq(seq, i + 1, Len(seq))

\* IntVar.get(): the entry's text as an integer; TclError when it is none
DigitTokens == <<"0", "1", "2", "3", "4", "5", "6", "7", "8", "9">>
IsDigit(c) == \E i \in 1..10 : DigitTokens[i] = c
DigitOf(c) == (CHOOSE i \in 1..10 : DigitTokens[i] = c) - 1
IsNat(t) == t # <<>> /\ \A i \in 1..Len(t) : IsDigit(t[i])
IsInt(t) == IsNat(t) \/ (t # <<>> /\ Head(t) = "-" /\ IsNat(Tail(t)))
RECURSIVE NatOf(_)
NatOf(t) == IF t = <<>> THEN 0 ELSE 10 * NatOf(SubSeq(t, 1, Len(t) - 1)) + DigitOf(t[Len(t)])
IntOf(t) == IF Head(t) = "-" THEN 0 - NatOf(Tail(t)) ELSE NatOf(t)

\* [c.strip() for c in text.split(",") if c.strip()]
RECURSIVE StripAll(_)
StripAll(parts) == IF parts = <<>> THEN <<>>
                   ELSE <<Strip(Head(parts))>> \o StripAll(Tail(parts))
CsvList(text) == SelectSeq(StripAll(Split(text, ",")), LAMBDA c : c # <<>>)

\* an update that never disables the button again
update_pools_section_state_keep_button(jobs, pools) ==
    IF Len(jobs) > 0
    THEN [pools_data |-> pools,
          pools_ui |-> [add_pool_btn |-> "normal", pools_warning |-> FALSE,
                        pools_container |-> TRUE]]
    ELSE [pools_data |-> <<>>,
          pools_ui |-> [add_pool_btn |-> "normal", pools_warning |-> TRUE,
                        pools_container |-> FALSE]]

\* an update that hides the pools without deleting them
update_pools_section_state_keep_pools(jobs, pools) ==
    [pools_data |-> pools,
     pools_ui |-> IF Len(jobs) > 0
                  THEN [add_pool_btn |-> "normal", pools_warning |-> FALSE,
                        pools_container |-> TRUE]
                  ELSE [add_pool_btn |-> "disabled", pools_warning |-> TRUE,
                        pools_container |-> FALSE]]

\* lines 745-766: the pools and the state of the pools section, given the jobs
update_pools_section_state(jobs, pools) ==
    IF Len(jobs) > 0
    THEN [pools_data |-> pools,
          pools_ui |-> [add_pool_btn |-> "normal", pools_warning |-> FALSE,
                        pools_container |-> TRUE]]
    ELSE [pools_data |-> <<>>,
          pools_ui |-> [add_pool_btn |-> "disabled", pools_warning |-> TRUE,
                        pools_container |-> FALSE]]

\* lines 650-699
add_job ==
    /\ entry = "main_gui"
    /\ jobs_data' = Append(jobs_data, job_info)
    /\ pools_data' = update_pools_section_state(Append(jobs_data, job_info), pools_data).pools_data
    /\ pools_ui' = update_pools_section_state(Append(jobs_data, job_info), pools_data).pools_ui
    /\ messagebox' = NoMsg
    /\ console' = "none"
    /\ UNCHANGED <<entry, environ, script, config_data, progress_label, threads, fg,
                   files>>

\* lines 701-707: the Eliminar button of row i
remove_job ==
    /\ entry = "main_gui"
    /\ \E i \in 1..Len(jobs_data) :
          /\ jobs_data' = RemoveAt(jobs_data, i)
          /\ pools_data' = update_pools_section_state(RemoveAt(jobs_data, i), pools_data).pools_data
          /\ pools_ui' = update_pools_section_state(RemoveAt(jobs_data, i), pools_data).pools_ui
    /\ messagebox' = NoMsg
    /\ console' = "none"
    /\ UNCHANGED <<entry, environ, script, config_data, progress_label, threads, fg,
                   files>>

\* an Agregar Pool that works while its button is disabled
add_pool_any ==
    /\ entry = "main_gui"
    /\ pools_data' = Append(pools_data, pool_info)
    /\ messagebox' = NoMsg
    /\ console' = "none"
    /\ UNCHANGED <<entry, environ, script, config_data, jobs_data, progress_label,
                   pools_ui, threads, fg, files>>

\* lines 768-780, behind the button of lines 844-848
add_pool ==
    /\ entry = "main_gui"
    /\ pools_ui.add_pool_btn = "normal"
    /\ pools_data' = Append(pools_data, pool_info)
    /\ messagebox' = NoMsg
    /\ console' = "none"
    /\ UNCHANGED <<entry, environ, script, config_data, jobs_data, progress_label,
                   pools_ui, threads, fg, files>>

\* lines 838-841
remove_pool ==
    /\ entry = "main_gui"
    /\ \E i \in 1..Len(pools_data) : pools_data' = RemoveAt(pools_data, i)
    /\ messagebox' = NoMsg
    /\ console' = "none"
    /\ UNCHANGED <<entry, environ, script, config_data, jobs_data, progress_label,
                   pools_ui, threads, fg, files>>

\* a Limpiar Todo that leaves the model and the progress text
clear_all_keeps_model ==
    /\ entry = "main_gui"
    /\ jobs_data' = <<>>
    /\ pools_data' = update_pools_section_state(<<>>, <<>>).pools_data
    /\ pools_ui' = update_pools_section_state(<<>>, <<>>).pools_ui
    /\ config_data' = [api_key |-> <<>>, dialect |-> "mysql", use_uuid |-> TRUE,
                       include_roles |-> FALSE, model |-> config_data.model]
    /\ messagebox' = NoMsg
    /\ console' = "none"
    /\ UNCHANGED <<entry, environ, script, progress_label, threads, fg, files>>

\* a Limpiar Todo that also drops the running generations
clear_all_cancels ==
    /\ entry = "main_gui"
    /\ jobs_data' = <<>>
    /\ pools_data' = update_pools_section_state(<<>>, <<>>).pools_data
    /\ pools_ui' = update_pools_section_state(<<>>, <<>>).pools_ui
    /\ config_data' = [api_key |-> <<>>, dialect |-> "mysql", use_uuid |-> TRUE,
                       include_roles |-> FALSE, model |-> <<"gpt-", "4o-mini">>]
    /\ progress_label' = NoMsg
    /\ messagebox' = NoMsg
    /\ console' = "none"
    /\ threads' = EmptyBag
    /\ UNCHANGED <<entry, environ, script, fg, files>>

\* lines 860-884
clear_all ==
    /\ entry = "main_gui"
    /\ jobs_data' = <<>>
    /\ pools_data' = update_pools_section_state(<<>>, <<>>).pools_data
    /\ pools_ui' = update_pools_section_state(<<>>, <<>>).pools_ui
    /\ config_data' = [api_key |-> <<>>, dialect |-> "mysql", use_uuid |-> TRUE,
                       include_roles |-> FALSE, model |-> <<"gpt-", "4o-mini">>]
    /\ progress_label' = NoMsg
    /\ messagebox' = NoMsg
    /\ console' = "none"
    /\ UNCHANGED <<entry, environ, script, threads, fg, files>>

\* the user edits an entry (the textvariable bindings of lines 577, 674, 794, 814)
type_api_key ==
    /\ entry = "main_gui"
    /\ \E v \in ApiKeyTexts : config_data' = [config_data EXCEPT !.api_key = v]
    /\ messagebox' = NoMsg
    /\ console' = "none"
    /\ UNCHANGED <<entry, environ, script, jobs_data, pools_data, progress_label,
                   pools_ui, threads, fg, files>>

type_job_name ==
    /\ entry = "main_gui"
    /\ \E i \in 1..Len(jobs_data), v \in NameTexts :
          jobs_data' = [jobs_data EXCEPT ![i].name = v]
    /\ messagebox' = NoMsg
    /\ console' = "none"
    /\ UNCHANGED <<entry, environ, script, config_data, pools_data, progress_label,
                   pools_ui, threads, fg, files>>

type_pool_skill ==
    /\ entry = "main_gui"
    /\ \E i \in 1..Len(pools_data), v \in NameTexts :
          pools_data' = [pools_data EXCEPT ![i].skill = v]
    /\ messagebox' = NoMsg
    /\ console' = "none"
    /\ UNCHANGED <<entry, environ, script, config_data, jobs_data, progress_label,
                   pools_ui, threads, fg, files>>

type_pool_quantity ==
    /\ entry = "main_gui"
    /\ \E i \in 1..Len(pools_data), v \in QuantityTexts :
          pools_data' = [pools_data EXCEPT ![i].quantity = v]
    /\ messagebox' = NoMsg
    /\ console' = "none"
    /\ UNCHANGED <<entry, environ, script, config_data, jobs_data, progress_label,
                   pools_ui, threads, fg, files>>

\* what the user picks in the combo box of lines 593-596
ModelValues == {<<"gpt-", "4o-mini">>, <<"gpt-", "4o">>}

\* line 584: dialect_combo
select_dialect ==
    /\ entry = "main_gui"
    /\ \E v \in {"mysql", "postgres"} : config_data' = [config_data EXCEPT !.dialect = v]
    /\ messagebox' = NoMsg
    /\ console' = "none"
    /\ UNCHANGED <<entry, environ, script, jobs_data, pools_data, progress_label,
                   pools_ui, threads, fg, files>>

\* lines 593-596: model_combo
select_model ==
    /\ entry = "main_gui"
    /\ \E v \in ModelValues : config_data' = [config_data EXCEPT !.model = v]
    /\ messagebox' = NoMsg
    /\ console' = "none"
    /\ UNCHANGED <<entry, environ, script, jobs_data, pools_data, progress_label,
                   pools_ui, threads, fg, files>>

\* lines 611-614: uuid_check
toggle_use_uuid ==
    /\ entry = "main_gui"
    /\ config_data' = [config_data EXCEPT !.use_uuid = ~@]
    /\ messagebox' = NoMsg
    /\ console' = "none"
    /\ UNCHANGED <<entry, environ, script, jobs_data, pools_data, progress_label,
                   pools_ui, threads, fg, files>>

\* lines 623-626: roles_check
toggle_include_roles ==
    /\ entry = "main_gui"
    /\ config_data' = [config_data EXCEPT !.include_roles = ~@]
    /\ messagebox' = NoMsg
    /\ console' = "none"
    /\ UNCHANGED <<entry, environ, script, jobs_data, pools_data, progress_label,
                   pools_ui, threads, fg, files>>

-----------------------------------------------------------------------------
(* main_gui.generate: the Generate button *)

\* a generate that takes a key for granted
generate_api_key_default(cfg, env) == Some(<<"k">>)

\* lines 889-892: the field, stripped, else the environment
generate_api_key(cfg, env) ==
    IF Strip(cfg.api_key) # <<>> THEN Some(Strip(cfg.api_key)) ELSE env

\* the first index at which a sequence of booleans holds TRUE, 0 when none does
FirstTrue(bs) ==
    IF \E i \in 1..Len(bs) : bs[i]
    THEN CHOOSE i \in 1..Len(bs) : bs[i] /\ \A j \in 1..(i - 1) : ~bs[j]
    ELSE 0

\* a pool check that accepts every integer quantity
BadPool_any_quantity(pool) == \/ Strip(pool.skill) = <<>>
                              \/ ~IsInt(pool.quantity)

BlankName(job) == Strip(job.name) = <<>>
BadPool(pool) == \/ Strip(pool.skill) = <<>>
                 \/ ~IsInt(pool.quantity)
                 \/ IntOf(pool.quantity) <= 0

\* the row at which the loop of lines 911-915, of lines 918-926, stops
FirstBlankName(jobs) == FirstTrue([i \in 1..Len(jobs) |-> BlankName(jobs[i])])
FirstBadPool(pools) == FirstTrue([i \in 1..Len(pools) |-> BadPool(pools[i])])

\* lines 918-926, for the first pool that stops the loop
pool_error(pool, i) ==
    IF Strip(pool.skill) = <<>> THEN Msg("invalid", i, <<"pool_skill">>)
    ELSE IF ~IsInt(pool.quantity) THEN Msg("TclError", i, <<"pool_quantity">>)
    ELSE Msg("invalid", i, <<"pool_quantity">>)

\* lines 888-926: the validations, in order; "ok" when all pass
generate_check(cfg, jobs, pools, env) ==
    IF ~Truthy(generate_api_key(cfg, env)) THEN Msg("invalid", 0, <<"api_key">>)
    ELSE IF jobs = <<>> THEN Msg("invalid", 0, <<"no_jobs">>)
    ELSE IF pools = <<>> THEN Msg("invalid", 0, <<"no_pools">>)
    ELSE IF FirstBlankName(jobs) # 0
    THEN Msg("invalid", FirstBlankName(jobs), <<"job_name">>)
    ELSE IF FirstBadPool(pools) # 0
    THEN pool_error(pools[FirstBadPool(pools)], FirstBadPool(pools))
    ELSE Msg("ok", 0, <<>>)

\* lines 929-932
generate_model(cfg) ==
    IF Strip(cfg.model) # <<>> /\ Head(Strip(cfg.model)) = "pgt-"
    THEN <<"gpt-">> \o Tail(Strip(cfg.model))
    ELSE Strip(cfg.model)

\* lines 935-937; str.lower() leaves the combo's values as they are
generate_dialect(cfg) ==
    IF cfg.dialect \in {"mysql", "postgres", "sqlserver"} THEN cfg.dialect ELSE "mysql"

\* lines 939-949
generate_pools(pools) ==
    [i \in 1..Len(pools) |->
        PoolInput(pools[i].skill, pools[i].level, IntOf(pools[i].quantity),
                  IF CsvList(pools[i].certifiers) = <<>> THEN DefaultCertifiers
                  ELSE CsvList(pools[i].certifiers))]

\* jobs collected without the default skill
generate_jobs_no_default(jobs, pools) ==
    [i \in 1..Len(jobs) |-> JobInput(jobs[i].name, CsvList(jobs[i].skills))]

\* lines 951-956
generate_jobs(jobs, pools) ==
    [i \in 1..Len(jobs) |->
        JobInput(jobs[i].name,
                 IF CsvList(jobs[i].skills) = <<>> /\ pools # <<>>
                 THEN <<pools[1].technical_skill>>
                 ELSE CsvList(jobs[i].skills))]

\* lines 958-990: the thread, with what its closure captured
generate_thread(cfg, jobs, pools, env) ==
    [Run("start", generate_api_key(cfg, env), generate_model(cfg), None)
        EXCEPT !.inputs = Some([dialect |-> generate_dialect(cfg),
                                pools |-> generate_pools(pools),
                                jobs |-> generate_jobs(jobs, generate_pools(pools))])]

generate ==
    /\ entry = "main_gui"
    /\ LET v == generate_check(config_data, jobs_data, pools_data, environ)
       IN  IF v.kind = "ok"
           THEN /\ BagCardinality(threads) < MaxThreads
                /\ threads' = threads (+) SetToBag({generate_thread(config_data, jobs_data,
                                                                    pools_data, environ)})
                /\ config_data' = [config_data EXCEPT !.model = generate_model(config_data)]
                /\ messagebox' = NoMsg
                /\ console' = "none"
                /\ UNCHANGED <<progress_label>>
           ELSE IF v.kind = "TclError"
           THEN \* the callback dies; Tk prints the traceback
                /\ console' = "tk_callback_traceback"
                /\ messagebox' = NoMsg
                /\ UNCHANGED <<config_data, progress_label, threads>>
           ELSE /\ progress_label' = v
                /\ messagebox' = Msg("showerror", v.n, v.text)
                /\ console' = "none"
                /\ UNCHANGED <<config_data, threads>>
    /\ UNCHANGED <<entry, environ, script, jobs_data, pools_data, pools_ui, fg, files>>

-----------------------------------------------------------------------------
(* main_gui.generate.do_generate: the steps of a background thread *)

ThreadSet == BagToSet(threads)
Without(t) == threads (-) SetToBag({t})
With(t, r) == (threads (-) SetToBag({t})) (+) SetToBag({r})

\* a handler that catches ValueError only
do_generate_except_value_error(e, label, box) ==
    IF e = "ValueError"
    THEN [caught |-> TRUE, label |-> Msg("error", 0, <<e>>),
          box |-> Msg("showerror", 0, <<e>>)]
    ELSE [caught |-> FALSE, label |-> label, box |-> NoMsg]

\* lines 985-987: the handler of do_generate, given the exception and what the
\* label and the message box show
do_generate_except(e, label, box) ==
    [caught |-> TRUE, label |-> Msg("error", 0, <<e>>), box |-> Msg("showerror", 0, <<e>>)]

\* exception e is raised inside the try of thread t; con is the console by then.
\* An exception the handler does not catch ends the thread with a traceback
thread_raise(t, e, con) ==
    /\ threads' = Without(t)
    /\ progress_label' = do_generate_except(e, progress_label, messagebox).label
    /\ messagebox' = do_generate_except(e, progress_label, messagebox).box
    /\ console' = IF do_generate_except(e, progress_label, messagebox).caught
                  THEN con ELSE "thread_traceback"

\* a do_generate that calls the model before it has a prompt
do_generate_begin_no_prompt(t, cfg) == [t EXCEPT !.pc = "gs_entry"]

\* lines 961-965: the label, then the prompt from the captured rows and the
\* current checkboxes
do_generate_begin(t, cfg) ==
    [t EXCEPT !.prompt = Some(build_prompt(t.inputs[1].dialect, cfg.use_uuid,
                                           t.inputs[1].pools, t.inputs[1].jobs,
                                           cfg.include_roles)),
              !.pc = "gs_entry"]

do_generate_start ==
    /\ \E t \in ThreadSet :
          /\ t.pc = "start"
          /\ threads' = With(t, do_generate_begin(t, config_data))
    /\ progress_label' = Msg("generating", 0, <<>>)
    /\ messagebox' = NoMsg
    /\ console' = "none"
    /\ UNCHANGED <<entry, environ, script, config_data, jobs_data, pools_data,
                   pools_ui, fg, files>>

\* a Tk call made from the thread fails (lines 961-965, 969-973)
do_generate_tk_error ==
    /\ \E t \in ThreadSet :
          /\ t.pc \in {"start", "gs_returned"}
          /\ thread_raise(t, "RuntimeError", "none")
    /\ UNCHANGED <<entry, environ, script, config_data, jobs_data, pools_data,
                   pools_ui, fg, files>>

\* line 966: seed = generate_seed_sql(...); the locals of the call end with it
do_generate_seed(r) ==
    IF r.pc = "gs_returned"
    THEN [r EXCEPT !.client = None, !.nA = 0, !.nB = 0, !.aexc = "", !.content = None]
    ELSE r

\* line 966: a step of generate_seed_sql that leaves the run in state r
thread_gs_step(t, r) ==
    IF r.pc = "gs_raised"
    THEN thread_raise(t, r.exc, gs_error_panel(r, "none"))
    ELSE /\ threads' = With(t, do_generate_seed(r))
         /\ messagebox' = NoMsg
         /\ console' = "none"
         /\ UNCHANGED <<progress_label>>

do_generate_gs_start ==
    /\ \E t \in ThreadSet :
          /\ t.pc = "gs_entry"
          /\ thread_gs_step(t, gs_start(t, environ))
    /\ UNCHANGED <<entry, environ, script, config_data, jobs_data, pools_data,
                   pools_ui, fg, files>>

do_generate_reply_A ==
    /\ \E t \in ThreadSet :
          /\ t.pc = "gs_waitA"
          /\ \E out \in AOutcomes(entry) : thread_gs_step(t, gs_after_A(t, out))
    /\ UNCHANGED <<entry, environ, script, config_data, jobs_data, pools_data,
                   pools_ui, fg, files>>

do_generate_reply_B ==
    /\ \E t \in ThreadSet :
          /\ t.pc = "gs_waitB"
          /\ \E out \in BOutcomes(entry) : thread_gs_step(t, gs_after_B(t, out))
    /\ UNCHANGED <<entry, environ, script, config_data, jobs_data, pools_data,
                   pools_ui, fg, files>>

\* lines 969-977 and 982-983: the save dialog returns path
do_generate_dialog ==
    /\ \E t \in ThreadSet :
          /\ t.pc = "gs_returned"
          /\ \E path \in DialogPaths :
                IF path # <<>>
                THEN /\ threads' = With(t, [t EXCEPT !.out_prefix = RSplit1Head(path, "."),
                                                     !.pc = "wo_json"])
                     /\ UNCHANGED progress_label
                ELSE /\ threads' = Without(t)
                     /\ progress_label' = Msg("not_saved", 0, <<>>)
    /\ messagebox' = NoMsg
    /\ console' = "none"
    /\ UNCHANGED <<entry, environ, script, config_data, jobs_data, pools_data,
                   pools_ui, fg, files>>

\* lines 978-981: write_outputs runs to its end, or to the AttributeError of a
\* seed that is None
do_generate_write ==
    /\ \E t \in ThreadSet :
          /\ t.pc = "wo_json"
          /\ files' = write_outputs(t, files).fs
          /\ IF write_outputs(t, files).run.pc = "wo_returned"
             THEN /\ threads' = Without(t)
                  /\ progress_label' = Msg("saved", 0, t.out_prefix)
                  /\ messagebox' = Msg("showinfo", 0, t.out_prefix)
                  /\ console' = "files_table"
             ELSE thread_raise(t, write_outputs(t, files).run.exc, "none")
    /\ UNCHANGED <<entry, environ, script, config_data, jobs_data, pools_data,
                   pools_ui, fg>>

\* the first k files of write_outputs
RECURSIVE write_some(_, _, _)
write_some(r, fs, k) ==
    IF k = 0 THEN [run |-> r, fs |-> fs]
    ELSE IF r.pc = "wo_json" THEN write_some(wo_json(r, fs).run, wo_json(r, fs).fs, k - 1)
    ELSE IF r.pc = "wo_sql" THEN write_some(wo_sql(r, fs).run, wo_sql(r, fs).fs, k - 1)
    ELSE IF r.pc = "wo_tables" /\ wo_next(r) <= Len(r.result[1].tables)
    THEN write_some(wo_table(r, fs).run, wo_table(r, fs).fs, k - 1)
    ELSE [run |-> r, fs |-> fs]

\* line 978: open() fails for the file after the first k
WriteFailures == {0}

do_generate_write_oserror ==
    /\ \E t \in ThreadSet :
          /\ t.pc = "wo_json"
          /\ t.result[1].kind # "None"
          /\ \E k \in WriteFailures :
                files' = write_some(t, files, k).fs
          /\ thread_raise(t, "OSError", "none")
    /\ UNCHANGED <<entry, environ, script, config_data, jobs_data, pools_data,
                   pools_ui, fg>>

-----------------------------------------------------------------------------
(* main: the command line *)

CliDialects == {"mysql", "postgres", "oracle"}
CliModels == {<<"gpt-", "4o-mini">>, <<"pgt-", "4o">>}
CliPools == {<<>>, <<PoolInput(<<"Skill1">>, "BAJO", 5, DefaultCertifiers)>>}
\* the skills typed for each job: none, or one
CliSkills == {<<>>, <<(<<>>)>>, <<(<<(<<"Skill1">>)>>)>>}
CliPrefixes == {<<"seed_output">>}

\* lines 1062-1065
main_dialect(d) == IF d \in {"mysql", "postgres", "sqlserver"} THEN d ELSE "mysql"

\* lines 1072-1074
main_model(m) == IF m # <<>> /\ Head(m) = "pgt-" THEN <<"gpt-">> \o Tail(m) ELSE m

\* lines 1117-1131: pools[0] raises IndexError when no pool was entered
main_jobs_raise(pools, skills) == pools = <<>> /\ \E i \in 1..Len(skills) : skills[i] = <<>>

main_jobs(pools, skills) ==
    [i \in 1..Len(skills) |->
        JobInput(<<"Puesto">>, IF skills[i] = <<>> THEN <<pools[1].technical_skill>>
                               ELSE skills[i])]

\* lines 1062-1131: the questions
main_ask ==
    /\ entry = "main"
    /\ fg.pc = "main_ask"
    /\ \E d \in CliDialects, u \in BOOLEAN, m \in CliModels, pools \in CliPools,
          skills \in CliSkills :
          IF main_jobs_raise(pools, skills)
          THEN fg' = [fg EXCEPT !.pc = "main_raised", !.exc = "IndexError"]
          ELSE fg' = [fg EXCEPT !.pc = "main_prompt", !.model = main_model(m),
                                !.inputs = Some([dialect |-> main_dialect(d),
                                                 use_uuid |-> u, include_roles |-> ~u,
                                                 pools |-> pools,
                                                 jobs |-> main_jobs(pools, skills)])]
    /\ messagebox' = NoMsg
    /\ console' = "none"
    /\ UNCHANGED <<entry, environ, script, formVars, files>>

\* lines 1135-1149
main_build_prompt ==
    /\ entry = "main"
    /\ fg.pc = "main_prompt"
    /\ fg' = [fg EXCEPT !.pc = "gs_entry",
                        !.prompt = Some(build_prompt(fg.inputs[1].dialect,
                                                     fg.inputs[1].use_uuid,
                                                     fg.inputs[1].pools, fg.inputs[1].jobs,
                                                     fg.inputs[1].include_roles))]
    /\ console' = "generating"
    /\ messagebox' = NoMsg
    /\ UNCHANGED <<entry, environ, script, formVars, files>>

\* a main whose first handler catches every exception
main_except_swallow(r) ==
    [run |-> [r EXCEPT !.pc = "main_returned"], console |-> "error_schema"]

\* lines 1150-1167: the two handlers around generate_seed_sql
main_except(r) ==
    IF r.exc = "ValidationError"
    THEN [run |-> [r EXCEPT !.pc = "main_returned"], console |-> "error_schema"]
    ELSE [run |-> [r EXCEPT !.pc = "main_raised"], console |-> "error_unexpected"]

main_generate_failed ==
    /\ entry = "main"
    /\ fg.pc = "gs_raised"
    /\ fg' = main_except(fg).run
    /\ console' = main_except(fg).console
    /\ messagebox' = NoMsg
    /\ UNCHANGED <<entry, environ, script, formVars, files>>

\* lines 1169-1185: the notes, the prefix question, the call of write_outputs
main_save ==
    /\ entry = "main"
    /\ fg.pc = "gs_returned"
    /\ IF fg.result[1].kind = "None"
       THEN /\ fg' = [fg EXCEPT !.pc = "main_raised", !.exc = "AttributeError"]
            /\ console' = "completed"
       ELSE /\ \E p \in CliPrefixes : fg' = [fg EXCEPT !.pc = "wo_json", !.out_prefix = p]
            /\ console' = IF fg.result[1].notes # <<>> THEN "notes" ELSE "completed"
    /\ messagebox' = NoMsg
    /\ UNCHANGED <<entry, environ, script, formVars, files>>

\* lines 1187-1195
main_final ==
    /\ entry = "main"
    /\ fg.pc = "wo_returned"
    /\ fg' = [fg EXCEPT !.pc = "main_returned"]
    /\ console' = "process_completed"
    /\ messagebox' = NoMsg
    /\ UNCHANGED <<entry, environ, script, formVars, files>>

\* line 1185: an exception of write_outputs leaves main
main_write_failed ==
    /\ entry = "main"
    /\ fg.pc = "wo_raised"
    /\ fg' = [fg EXCEPT !.pc = "main_raised"]
    /\ messagebox' = NoMsg
    /\ console' = "none"
    /\ UNCHANGED <<entry, environ, script, formVars, files>>

\* main(): the questions, one generation, the files
NextCli == \/ main_ask
           \/ main_build_prompt
           \/ fg_gs_start
           \/ fg_gs_reply_A
           \/ fg_gs_reply_B
           \/ main_generate_failed
           \/ main_save
           \/ fg_wo_json
           \/ fg_wo_sql
           \/ fg_wo_table
           \/ fg_wo_summary
           \/ fg_wo_oserror
           \/ main_final
           \/ main_write_failed

-----------------------------------------------------------------------------
(* Spec: the interactive program, started as the form (main_gui) or as the  *)
(* command line (main)                                                      *)

InitGui ==
    /\ entry = "main_gui"
    /\ environ \in EnvValues
    /\ script = NoScript
    /\ config_data = [api_key |-> <<>>, dialect |-> "mysql", use_uuid |-> TRUE,
                      include_roles |-> FALSE, model |-> <<"gpt-", "4o-mini">>]
    /\ jobs_data = <<>>
    /\ pools_data = update_pools_section_state(<<>>, <<>>).pools_data
    /\ pools_ui = update_pools_section_state(<<>>, <<>>).pools_ui
    /\ progress_label = NoMsg
    /\ messagebox = NoMsg
    /\ threads = EmptyBag
    /\ fg = NoRun
    /\ console = "none"
    /\ files = <<>>

InitCli ==
    /\ entry = "main"
    /\ environ \in EnvValues
    /\ script = NoScript
    /\ NoGui
    /\ fg = Run("main_ask", None, <<>>, None)
    /\ console = "welcome"
    /\ files = <<>>

Init == InitGui \/ InitCli

Next == \/ (Len(jobs_data) < MaxJobs /\ add_job)
        \/ remove_job
        \/ (Len(pools_data) < MaxPools /\ add_pool)
        \/ remove_pool
        \/ clear_all
        \/ type_api_key
        \/ type_job_name
        \/ type_pool_skill
        \/ type_pool_quantity
        \/ generate
        \/ do_generate_start
        \/ do_generate_tk_error
        \/ do_generate_gs_start
        \/ do_generate_reply_A
        \/ do_generate_reply_B
        \/ do_generate_dialog
        \/ do_generate_write
        \/ do_generate_write_oserror
        \/ main_ask
        \/ main_build_prompt
        \/ fg_gs_start
        \/ fg_gs_reply_A
        \/ fg_gs_reply_B
        \/ main_generate_failed
        \/ main_save
        \/ fg_wo_json
        \/ fg_wo_sql
        \/ fg_wo_table
        \/ fg_wo_summary
        \/ fg_wo_oserror
        \/ main_final
        \/ main_write_failed

Spec == Init /\ [][Next]_vars

\* SpecCli: the command line alone
SpecCli == InitCli /\ [][NextCli]_vars

\* the rows of the form of SpecForm
MaxFormJobs == 2
MaxFormPools == 2

\* the form while it is filled in: its rows, its configuration, and the
\* clicks on Generate and Limpiar Todo; no pool skill is typed
NextForm == \/ (Len(jobs_data) < MaxFormJobs /\ add_job)
            \/ remove_job
            \/ (Len(pools_data) < MaxFormPools /\ add_pool)
            \/ remove_pool
            \/ clear_all
            \/ type_api_key
            \/ type_job_name
            \/ select_dialect
            \/ select_model
            \/ toggle_use_uuid
            \/ toggle_include_roles
            \/ generate

\* SpecForm: the form of main_gui
SpecForm == InitGui /\ [][NextForm]_vars

\* the rows of the form of SpecClick
MaxRows == 2

\* what the entries of lines 682 and 822 may hold
SkillsTexts == {<<>>, <<" ", ",">>, <<"s">>}
CertifiersTexts == {<<>>, <<"c", ",", " ", "d">>}

\* the forms the user may have filled in before a click on Generate: rows as
\* add_job and add_pool make them, with typed entries; no pool without a job
ClickJobs == {[name |-> n, skills |-> k] : n \in NameTexts, k \in SkillsTexts}
ClickPools == {[skill |-> k, level |-> "BAJO", quantity |-> q, certifiers |-> c] :
                  k \in NameTexts, q \in QuantityTexts, c \in CertifiersTexts}

InitClick ==
    /\ entry = "main_gui"
    /\ environ = None
    /\ script = NoScript
    /\ config_data \in {[api_key |-> a, dialect |-> "mysql", use_uuid |-> TRUE,
                          include_roles |-> FALSE, model |-> m] :
                            a \in ApiKeyTexts,
                            m \in {<<"gpt-", "4o-mini">>, <<"pgt-", "4o">>}}
    /\ jobs_data \in SeqUpTo(ClickJobs, MaxRows)
    /\ pools_data \in SeqUpTo(ClickPools, MaxRows)
    /\ jobs_data = <<>> => pools_data = <<>>
    /\ pools_ui = update_pools_section_state(jobs_data, pools_data).pools_ui
    /\ progress_label = NoMsg
    /\ messagebox = NoMsg
    /\ threads = EmptyBag
    /\ fg = NoRun
    /\ console = "none"
    /\ files = <<>>

\* SpecClick: clicks on Generate, on any filled form
SpecClick == InitClick /\ [][generate]_vars

\* the clicks and keystrokes on the window of main_gui, the API key being
\* left to the environment
FormStep == \/ (Len(jobs_data) < MaxJobs /\ add_job)
            \/ remove_job
            \/ (Len(pools_data) < MaxPools /\ add_pool)
            \/ remove_pool
            \/ clear_all
            \/ type_job_name
            \/ type_pool_skill
            \/ generate

\* the steps of the threads of do_generate
ThreadStep == \/ do_generate_start
              \/ do_generate_tk_error
              \/ do_generate_gs_start
              \/ do_generate_reply_A
              \/ do_generate_reply_B
              \/ do_generate_dialog
              \/ do_generate_write
              \/ do_generate_write_oserror

\* lines 989-990: while a started thread has a step to take, a thread is
\* scheduled, whatever the main loop does; the model answers each request
\* and the save dialog is closed
ThreadsRun == WF_vars(\/ do_generate_start
                      \/ do_generate_gs_start
                      \/ do_generate_reply_A
                      \/ do_generate_reply_B
                      \/ do_generate_dialog
                      \/ do_generate_write)

\* main_gui started with OPENAI_API_KEY in the environment
InitLive == InitGui /\ environ = Some(<<"k">>)

\* SpecLive: main_gui with threads that are scheduled
SpecLive == InitLive /\ [][FormStep \/ ThreadStep]_vars /\ ThreadsRun

-----------------------------------------------------------------------------
(* The claims of the specification, C1 to C10 *)

\* the steps of a call that is over
Finished == {"gs_returned", "gs_raised"}

\* C1 (a state of the call): method B has been called if and only if method A
\* raised, and then method A was attempted before it; once the client exists
\* method A has been attempted; a call that raised has returned no result
C1_State ==
    /\ fg.nB > 0 <=> fg.aexc # ""
    /\ fg.nB > 0 => fg.nA > 0
    /\ fg.pc \in {"gs_waitA", "gs_waitB", "gs_returned"} => fg.nA = 1
    /\ fg.pc = "gs_raised" => fg.exc # "" /\ fg.result = None
    /\ fg.pc = "gs_returned" => fg.exc = "" /\ fg.result # None

\* C1 (a step of the call): the method-A request is the first one sent; the
\* method-B request is sent by the step in which method A raised, and by no
\* other; a method-A reply that did not raise ends the call; a failing method B
\* ends the call with an exception and without a result
C1_Step ==
    /\ fg'.nA > fg.nA => fg.nA = 0 /\ fg.nB = 0
    /\ fg'.nB > fg.nB => fg.pc = "gs_waitA" /\ fg.nA = 1 /\ fg'.aexc # ""
    /\ (fg.pc = "gs_waitA" /\ fg'.aexc = "") => fg'.pc = "gs_returned" /\ fg'.nB = 0
    /\ (fg.pc = "gs_waitA" /\ fg'.aexc # "") => fg'.pc = "gs_waitB" /\ fg'.nB = 1
    /\ fg.pc = "gs_waitB" =>
          \/ fg'.pc = "gs_returned" /\ fg'.exc = "" /\ fg'.result # None
          \/ fg'.pc = "gs_raised" /\ fg'.exc # "" /\ fg'.result = None

\* C1: in generate_seed_sql method A is always attempted first; method B is
\* called if and only if method A raised an exception; if method B fails too,
\* the call raises an exception and returns no result
C1_FallbackOrder == []C1_State /\ [][C1_Step]_vars

\* C1, its case: both methods were tried, in that order, and the call raised
C1_Witness == fg.pc = "gs_raised" /\ fg.nA = 1 /\ fg.nB = 1 /\ fg.aexc = "AttributeError"

\* C2: one call of generate_seed_sql sends at most two requests, at most one
\* with method A and at most one with method B, whatever errors occur
C2_NoRetry == fg.nA <= 1 /\ fg.nB <= 1 /\ fg.nA + fg.nB <= 2

\* C2, its case: both requests were sent, both raised, the call is over
C2_Witness ==
    /\ fg.pc = "gs_raised" /\ fg.exc = "APIError" /\ fg.aexc = "APIError"
    /\ fg.nA + fg.nB = 2

\* C9, malformed content: empty, or not valid against the schema once the code
\* fences are stripped and the text is cut from the first "{" to the last "}"
C9_Malformed(content) ==
    \/ ~Truthy(content)
    \/ ~ValidatesJson(CutToBraces(StripFence(content[1])))

\* C9: a method-B reply whose content is empty, or does not validate after the
\* cleaning, makes generate_seed_sql raise; the call returns no value, and what
\* it does return after method B is the parse of a validated content
C9_MalformedRaises ==
    /\ (fg.pc \in Finished /\ fg.nB = 1 /\ fg.exc \notin BRaises(entry)
            /\ C9_Malformed(fg.content))
          => (fg.pc = "gs_raised" /\ fg.result = None
                /\ fg.exc \in {"ValueError", "ValidationError"})
    /\ (fg.pc = "gs_returned" /\ fg.nB = 1)
          => (~C9_Malformed(fg.content)
                /\ fg.result = Some(ParsedJson(CutToBraces(StripFence(fg.content[1])))))

\* C9, its case: a content with braces in it was cleaned and did not validate
C9_Witness ==
    /\ fg.pc = "gs_raised" /\ fg.exc = "ValidationError"
    /\ Truthy(fg.content) /\ Find(fg.content[1], "{") # 0 /\ Find(fg.content[1], "}") # 0

\* the per-table paths of a finished write_outputs call
C4_TablePaths ==
    {TablePath(fg.out_prefix, fg.result[1].tables[i]) :
        i \in 1..Len(fg.result[1].tables)}

\* C4: a write_outputs call that completes leaves the JSON file, the
\* consolidated SQL file and, for the n entries of tables, n distinct per-table
\* files, each holding the inserts of exactly its own entry
C4_OneFilePerTable ==
    fg.pc = "wo_returned" =>
        /\ JsonPath(fg.out_prefix) \in DOMAIN files
        /\ files[JsonPath(fg.out_prefix)] = JsonData(fg.result[1])
        /\ SqlPath(fg.out_prefix) \in DOMAIN files
        /\ files[SqlPath(fg.out_prefix)] = SqlData(fg.result[1])
        /\ Cardinality(C4_TablePaths) = Len(fg.result[1].tables)
        /\ \A i \in 1..Len(fg.result[1].tables) :
              /\ TablePath(fg.out_prefix, fg.result[1].tables[i]) \in DOMAIN files
              /\ files[TablePath(fg.out_prefix, fg.result[1].tables[i])]
                    = TableData(fg.result[1].tables[i])

\* C6 as stated: started with OPENAI_API_KEY unset or empty in the process
\* environment, the script never reaches main_gui
C6_LaunchEnvironment ==
    ~Truthy(script.launch_env) => script.pc \notin {"main_gui", "in_main_gui"}

\* C6: run as a script with OPENAI_API_KEY unset or empty once the optional
\* .env file has been loaded, the program reports the configuration error and
\* exits with status 1; main_gui is never called and no request is made
C6_MissingKeyExits ==
    (script.pc # "import" /\ ~Truthy(environ)) =>
        /\ script.pc \in {"main", "report", "exited"}
        /\ fg = NoRun
        /\ threads = EmptyBag
        /\ script.pc = "exited" =>
              /\ script.exit = Some(1)
              /\ \/ messagebox = Msg("showerror", 0, <<"missing_api_key">>)
                 \/ console = "missing_api_key"

\* C6, its case: the .env file gave no key and the script has exited
C6_Witness ==
    /\ script.pc = "exited" /\ script.exit = Some(1)
    /\ script.envfile # None /\ ~Truthy(environ)

\* C3: in the form at most one background generation thread exists at any
\* moment, whatever is clicked
C3_SingleThread == BagCardinality(threads) <= 1

\* C5, the missing credential: the API-key field is blank once trimmed and
\* OPENAI_API_KEY is unset or empty
C5_NoCredential == Strip(config_data.api_key) = <<>> /\ ~Truthy(environ)

\* C5 (a click): Generate without a credential shows the error in the label
\* and in a message box and starts no thread
C5_Step ==
    (generate /\ C5_NoCredential) =>
        /\ threads' = threads
        /\ progress_label' = Msg("invalid", 0, <<"api_key">>)
        /\ messagebox' = Msg("showerror", 0, <<"api_key">>)

\* C5: when Generate is clicked with the API-key field blank and
\* OPENAI_API_KEY unset or empty, an error is shown, no background thread is
\* started and no request is sent: every thread there is holds a key
C5_MissingCredential ==
    /\ [](\A t \in ThreadSet : Truthy(t.api_key))
    /\ [][C5_Step]_vars

\* C5, its case: the click was made without a credential
C5_Witness ==
    /\ C5_NoCredential
    /\ progress_label = Msg("invalid", 0, <<"api_key">>)
    /\ messagebox = Msg("showerror", 0, <<"api_key">>)
    /\ threads = EmptyBag

\* C7 (a step that ends a thread): it ends with the files saved, with the
\* save dialog cancelled, or with its exception in the progress label and in
\* an error box; no traceback of an escaped exception is printed and the rows
\* and fields of the form are as they were
C7_Step ==
    BagCardinality(threads') < BagCardinality(threads) =>
        /\ console' # "thread_traceback"
        /\ progress_label'.kind \in {"saved", "not_saved", "error"}
        /\ progress_label'.kind = "error" =>
              /\ progress_label'.text # <<>>
              /\ messagebox' = Msg("showerror", 0, progress_label'.text)
        /\ UNCHANGED <<config_data, jobs_data, pools_data, pools_ui>>

\* C7: every exception raised in the background generation is caught inside
\* do_generate and shown in the progress label and in an error message box;
\* none escapes the thread and the form stays as it was
C7_ExceptionsSurfaced == [](console # "thread_traceback") /\ [][C7_Step]_vars

\* C7, its case: writing the files failed and the form shows it
C7_Witness ==
    /\ entry = "main_gui"
    /\ progress_label = Msg("error", 0, <<"OSError">>)
    /\ messagebox = Msg("showerror", 0, <<"OSError">>)

\* C8 (the step after generate_seed_sql raised in main): a ValidationError is
\* reported and main returns; any other exception is reported and raised
\* again; no file is written
C8_Step ==
    (entry = "main" /\ fg.pc = "gs_raised") =>
        /\ DOMAIN files' = {}
        /\ fg'.result = None
        /\ IF fg.exc = "ValidationError"
           THEN fg'.pc = "main_returned" /\ console' = "error_schema"
           ELSE fg'.pc = "main_raised" /\ fg'.exc = fg.exc
                  /\ console' = "error_unexpected"

\* C8: in main, a ValidationError of generate_seed_sql prints an error panel
\* and main returns normally; any other exception prints an error panel and is
\* re-raised; in both cases no output file is written
C8_CliFailure ==
    /\ []((entry = "main" /\ fg.result = None) => DOMAIN files = {})
    /\ [][C8_Step]_vars

\* C8, its case: the reply did not meet the schema and main has returned
C8_Witness ==
    /\ entry = "main" /\ fg.pc = "main_returned" /\ fg.exc = "ValidationError"
    /\ console = "error_schema" /\ DOMAIN files = {}

\* C10, the runs of the program: the threads of the form, the call of main
C10_Runs == IF entry = "main_gui" THEN ThreadSet ELSE {fg}

C10_Requesting == {"gs_waitA", "gs_waitB"}
C10_Writing == {"wo_json", "wo_sql", "wo_tables"}

\* C10 (a state): a run that has sent a request, or is past it, holds the
\* prompt built from its collected fields; a run that writes holds the
\* response the model returned to it
C10_State ==
    \A r \in C10_Runs :
        /\ (r.nA + r.nB > 0 \/ r.pc \in C10_Requesting \cup {"gs_returned"} \cup C10_Writing)
              => /\ r.inputs # None /\ r.prompt # None
                 /\ r.prompt[1].dialect = r.inputs[1].dialect
        /\ r.pc \in C10_Requesting => r.result = None
        /\ r.pc \in C10_Writing \cup {"wo_returned"} => r.result # None

\* C10 (a step): a request is sent by a run that holds its prompt; a file is
\* written by a run that holds a returned response
C10_Step ==
    /\ \A r \in C10_Runs' : r.pc \in C10_Requesting => r.prompt # None
    /\ files' # files =>
          \E r \in C10_Runs : r.pc \in C10_Writing /\ r.result # None /\ r.prompt # None

\* C10: in the CLI and in the GUI the prompt is built from the collected fields
\* before any request is sent, and files are written only after a model
\* response has been returned in the same run
C10_PipelineOrder == []C10_State /\ [][C10_Step]_vars

\* C10, its case: a thread of the form has saved its files
C10_Witness ==
    /\ entry = "main_gui" /\ DOMAIN files # {}
    /\ progress_label.kind = "saved" /\ messagebox.kind = "showinfo"

-----------------------------------------------------------------------------
(* The claims of the specification, C11 to C19 *)

\* a thread of do_generate returns
C11_ThreadEnds == BagCardinality(threads') < BagCardinality(threads)

\* no thread is taken out of threads, and none is changed
C11_ThreadsKept == \A t \in BagToSet(threads) : CopiesIn(t, threads') >= CopiesIn(t, threads)

C11_Saved == /\ progress_label'.kind = "saved"
             /\ messagebox'.kind = "showinfo"
             /\ \E t \in ThreadSet : /\ t.pc = "wo_json"
                                      /\ JsonPath(t.out_prefix) \in DOMAIN files'
                                      /\ SqlPath(t.out_prefix) \in DOMAIN files'

C11_NotSaved == /\ progress_label'.kind = "not_saved"
                /\ messagebox' = NoMsg
                /\ files' = files

C11_Error == /\ progress_label'.kind = "error"
             /\ messagebox'.kind = "showerror"

C11_OneOutcome ==
    /\ C11_Saved \/ C11_NotSaved \/ C11_Error
    /\ ~(C11_Saved /\ C11_NotSaved)
    /\ ~(C11_Saved /\ C11_Error)
    /\ ~(C11_NotSaved /\ C11_Error)

C12_SectionFollowsJobs ==
    /\ (pools_ui.add_pool_btn = "normal") <=> (jobs_data # <<>>)
    /\ pools_ui.pools_warning <=> (jobs_data = <<>>)

\* Generate found jobs and no pool, and the jobs were removed afterwards:
\* the section is disabled again
C12_Witness ==
    /\ progress_label = Msg("invalid", 0, <<"no_pools">>)
    /\ jobs_data = <<>>
    /\ pools_ui.add_pool_btn = "disabled"
    /\ pools_ui.pools_warning

\* C13: in every state of the form, add_pool being possible only while its
\* button is enabled, a pools_data that is not empty comes with a jobs_data
\* that is not empty.
C13_PoolsNeedJobs == pools_data # <<>> => jobs_data # <<>>

\* Generate found a pool with a blank skill, and the form has no job left:
\* the pool went with the last job
C13_Witness ==
    /\ progress_label.text = <<"pool_skill">>
    /\ jobs_data = <<>>
    /\ pools_data = <<>>
    /\ config_data.api_key # <<>>

\* jobs with one of its rows taken out, the others in their order
C14_OneRemoved(before, after) ==
    \E i \in 1..Len(before) :
        after = SubSeq(before, 1, i - 1) \o SubSeq(before, i + 1, Len(before))

\* C14: remove_job takes exactly one row, the given one, out of jobs_data;
\* when a job remains pools_data is as it was, and when none remains
\* pools_data is empty.
C14_RemoveJob ==
    [][remove_job => /\ C14_OneRemoved(jobs_data, jobs_data')
                     /\ jobs_data' # <<>> => pools_data' = pools_data
                     /\ jobs_data' = <<>> => pools_data' = <<>>]_vars

\* Generate named job #2, and one job is left, with the two pools
C14_Witness ==
    /\ progress_label = Msg("invalid", 2, <<"job_name">>)
    /\ Len(jobs_data) = 1
    /\ Len(pools_data) = 2

\* the form as main_gui builds it (lines 513-522, 854, 1034), nothing shown
C15_Cleared ==
    /\ jobs_data = <<>>
    /\ pools_data = <<>>
    /\ config_data.api_key = <<>>
    /\ config_data.dialect = "mysql"
    /\ config_data.use_uuid = TRUE
    /\ config_data.include_roles = FALSE
    /\ config_data.model = <<"gpt-", "4o-mini">>
    /\ progress_label = NoMsg
    /\ pools_ui.add_pool_btn = "disabled"
    /\ pools_ui.pools_warning
    /\ ~pools_ui.pools_container
    /\ messagebox = NoMsg
    /\ console = "none"

\* C15: from any state of the form clear_all leads to the initial form: no
\* job, no pool, a blank API key, dialect mysql, use_uuid true, include_roles
\* false, model gpt-4o-mini, an empty progress text and a disabled pools
\* section; a second clear_all changes nothing.
C15_ClearAll ==
    /\ [][clear_all => C15_Cleared']_vars
    /\ [](C15_Cleared => ~ENABLED (clear_all /\ vars' # vars))

\* a form in which clear_all has every field to restore
C15_Witness ==
    /\ Len(jobs_data) = 2
    /\ Len(pools_data) = 2
    /\ config_data.api_key = <<"k">>
    /\ config_data.dialect = "postgres"
    /\ ~config_data.use_uuid
    /\ config_data.include_roles
    /\ config_data.model = <<"gpt-", "4o">>
    /\ progress_label.kind = "invalid"
    /\ ENABLED clear_all

\* the validations the click fails, as the form shows them
C16_NoKey == Strip(config_data.api_key) = <<>> /\ ~Truthy(environ)
C16_BlankJob(i) == \A k \in 1..Len(jobs_data[i].name) : jobs_data[i].name[k] \in WS
C16_BlankSkill(i) == \A k \in 1..Len(pools_data[i].skill) : pools_data[i].skill[k] \in WS
C16_NoQuantity(i) == IsInt(pools_data[i].quantity) /\ IntOf(pools_data[i].quantity) <= 0
C16_Fails ==
    \/ C16_NoKey
    \/ jobs_data = <<>>
    \/ pools_data = <<>>
    \/ \E i \in 1..Len(jobs_data) : C16_BlankJob(i)
    \/ \E i \in 1..Len(pools_data) : C16_BlankSkill(i) \/ C16_NoQuantity(i)

\* C16: a click on Generate on a form that fails a validation (no API key,
\* no job, no pool, a job with a blank name, a pool with a blank skill or a
\* quantity <= 0) starts no thread, so sends no request, writes no file, and
\* leaves jobs_data, pools_data and config_data as they were.
C16_FailedClick ==
    [][(generate /\ C16_Fails) => /\ threads' = threads
                                  /\ files' = files
                                  /\ jobs_data' = jobs_data
                                  /\ pools_data' = pools_data
                                  /\ config_data' = config_data]_vars

\* the click was refused for the quantity of the second pool
C16_Witness ==
    /\ messagebox = Msg("showerror", 2, <<"pool_quantity">>)
    /\ progress_label = Msg("invalid", 2, <<"pool_quantity">>)
    /\ config_data.model = <<"pgt-", "4o">>
    /\ threads = EmptyBag
    /\ files = <<>>

\* the first failing check, in the order of the claim
C17_FirstJob == CHOOSE i \in 1..Len(jobs_data) :
                   C16_BlankJob(i) /\ \A j \in 1..(i - 1) : ~C16_BlankJob(j)
C17_FirstPool == CHOOSE i \in 1..Len(pools_data) :
                    /\ C16_BlankSkill(i) \/ C16_NoQuantity(i)
                    /\ \A j \in 1..(i - 1) : ~(C16_BlankSkill(j) \/ C16_NoQuantity(j))
C17_First ==
    IF C16_NoKey THEN Msg("invalid", 0, <<"api_key">>)
    ELSE IF jobs_data = <<>> THEN Msg("invalid", 0, <<"no_jobs">>)
    ELSE IF pools_data = <<>> THEN Msg("invalid", 0, <<"no_pools">>)
    ELSE IF \E i \in 1..Len(jobs_data) : C16_BlankJob(i)
    THEN Msg("invalid", C17_FirstJob, <<"job_name">>)
    ELSE IF C16_BlankSkill(C17_FirstPool)
    THEN Msg("invalid", C17_FirstPool, <<"pool_skill">>)
    ELSE Msg("invalid", C17_FirstPool, <<"pool_quantity">>)

\* C17: a click on Generate on a form that fails a validation reports one
\* error, in the label and in one error box: that of the first failing check
\* in the order API key, jobs, pools, job names in list order, then each pool
\* in list order, its skill before its quantity.
C17_FirstError ==
    [][(generate /\ C16_Fails) => /\ progress_label' = C17_First
                                  /\ messagebox' = Msg("showerror", C17_First.n,
                                                        C17_First.text)]_vars

\* no entry was typed in a comma-separated field
C18_NoneTyped(text) == \A k \in 1..Len(text) : text[k] \in WS \cup {","}

C18_Inputs(t) == t.inputs[1]

\* C18: the pools and jobs a started generation carries are well formed: at
\* least one of each; every pool with a non-blank technical_skill, a
\* question_quantity > 0 and a non-empty certifiers list, which is the single
\* entry certifier1@example.com when none was typed; every job with a
\* non-blank name and a non-empty skills list, which is the first pool's
\* technical_skill when none was typed.
C18_WellFormed ==
    \A t \in BagToSet(threads) :
        /\ Len(C18_Inputs(t).pools) >= 1
        /\ Len(C18_Inputs(t).jobs) >= 1
        /\ Len(C18_Inputs(t).pools) = Len(pools_data)
        /\ Len(C18_Inputs(t).jobs) = Len(jobs_data)
        /\ \A i \in 1..Len(C18_Inputs(t).pools) :
              /\ \E k \in 1..Len(C18_Inputs(t).pools[i].technical_skill) :
                     C18_Inputs(t).pools[i].technical_skill[k] \notin WS
              /\ C18_Inputs(t).pools[i].question_quantity > 0
              /\ C18_Inputs(t).pools[i].certifiers # <<>>
              /\ C18_NoneTyped(pools_data[i].certifiers)
                    => C18_Inputs(t).pools[i].certifiers = <<(<<"certifier1@example.com">>)>>
        /\ \A i \in 1..Len(C18_Inputs(t).jobs) :
              /\ \E k \in 1..Len(C18_Inputs(t).jobs[i].name) :
                     C18_Inputs(t).jobs[i].name[k] \notin WS
              /\ C18_Inputs(t).jobs[i].skills # <<>>
              /\ C18_NoneTyped(jobs_data[i].skills)
                    => C18_Inputs(t).jobs[i].skills
                         = <<C18_Inputs(t).pools[1].technical_skill>>

\* a generation started from two pools and two jobs, one of each with
\* nothing typed in its list
C18_Witness ==
    /\ threads # EmptyBag
    /\ Len(pools_data) = 2
    /\ Len(jobs_data) = 2
    /\ pools_data[1].certifiers = <<>>
    /\ pools_data[2].certifiers # <<>>
    /\ jobs_data[1].skills = <<"s">>
    /\ jobs_data[2].skills = <<" ", ",">>

\* the table name with every "." replaced by "_"
C19_SafeName(table) == [i \in 1..Len(table) |-> IF table[i] = "." THEN "_" ELSE table[i]]

\* the files of a call of write_outputs, in order
C19_Expected ==
    <<fg.out_prefix \o <<".json">>, fg.out_prefix \o <<".sql">>>>
    \o [i \in 1..Len(fg.result[1].tables) |->
          fg.out_prefix \o <<"__">> \o C19_SafeName(fg.result[1].tables[i].table)
              \o <<".sql">>]

\* C19: write_outputs writes <out_prefix>.json, then <out_prefix>.sql, then
\* for each table entry in the order of the response
\* <out_prefix>__<table>.sql with every "." of the table name replaced by
\* "_"; at every point of the call the files written so far are the first
\* ones of that list, and at its return all of them.
C19_FileNames ==
    entry = "write_outputs" =>
        /\ Len(fg.written) <= Len(C19_Expected)
        /\ fg.written = SubSeq(C19_Expected, 1, Len(fg.written))
        /\ DOMAIN files = {fg.written[i] : i \in 1..Len(fg.written)}
        /\ fg.pc = "wo_returned" => fg.written = C19_Expected

\* a call that returned after two tables, one of them with a dotted name,
\* under a prefix with a dot
C19_Witness ==
    /\ entry = "write_outputs"
    /\ fg.pc = "wo_returned"
    /\ fg.out_prefix = <<"d", ".", "x">>
    /\ Len(fg.result[1].tables) = 2
    /\ fg.result[1].tables[2].table = <<"a", ".", "b">>
    /\ fg.written[4] = <<"d", ".", "x", "__", "a", "_", "b", ".sql">>
    /\ fg.written[4] \in DOMAIN files

====
